---- MODULE Spec2Model ----
(***************************************************************************)
(* A model of src/data/make_dataset.py: the citation lookup, the author    *)
(* lookup, the name normalisation, the gender lookup, and the module-level *)
(* loop that accumulates one table over the three cited works and saves    *)
(* it.                                                                     *)
(*                                                                         *)
(* Python strings that the code takes apart (given names) are sequences of *)
(* one-character strings; strings the code only passes around (DOIs,       *)
(* labels, gender categories, exception names) are TLA+ strings.           *)
(* A Python call either returns a value or raises: Return(v) / Raise(e).   *)
(***************************************************************************)
EXTENDS Integers, Sequences, FiniteSets

(***************************************************************************)
(* Bounds of the model.                                                    *)
(***************************************************************************)
\* longest given name enumerated character by character
MaxLen == 3
\* longest author sequence of a matched work
MaxAuthors == 2
\* citation entries the citation index returns over one whole run
MaxCitations == 2

(***************************************************************************)
(* Outcome of a Python call.                                               *)
(***************************************************************************)
Return(v) == [raised |-> FALSE, exc |-> "None", value |-> v]
Raise(e) == [raised |-> TRUE, exc |-> e]

(***************************************************************************)
(* Python str, as far as the code uses it.                                 *)
(***************************************************************************)
Str(n) == UNION {[1..m -> {"J", "a", ".", " "}] : m \in 0..n}

EmptyStr == <<>>

Whitespace == {" ", "\t", "\n"}

\* str.replace(old, new) for one-character old and new
str_replace(s, old, new) == [i \in 1..Len(s) |-> IF s[i] = old THEN new ELSE s[i]]

RECURSIVE lstrip(_)
lstrip(s) == IF Len(s) > 0 /\ Head(s) \in Whitespace THEN lstrip(Tail(s)) ELSE s

RECURSIVE first_word(_)
first_word(s) ==
  IF Len(s) = 0 \/ Head(s) \in Whitespace THEN <<>>
  ELSE <<Head(s)>> \o first_word(Tail(s))

\* str.split() with no separator: the maximal runs of non-whitespace
RECURSIVE str_split(_)
str_split(s) ==
  LET t == lstrip(s) IN
    IF Len(t) = 0 THEN <<>>
    ELSE LET w == first_word(t) IN
           <<w>> \o str_split(SubSeq(t, Len(w) + 1, Len(t)))

(***************************************************************************)
(* The three external services answer with values of these shapes.         *)
(***************************************************************************)
\* one entry of a work's "author" field (Crossref): "given" is optional
AuthorDict(g) == [has_given |-> TRUE, given |-> g]

NoGiven == [has_given |-> FALSE, given |-> EmptyStr]

\* one element of message.items: "author" is optional
WorkItem(a) == [has_author |-> TRUE, author |-> a]

NoAuthorItem == [has_author |-> FALSE, author |-> <<>>]

\* what cr.works(...) gives: the parsed body, or an exception of the client
Works(total, items) == [transport |-> "ok", total_results |-> total, items |-> items]

WorksError == [transport |-> "error", total_results |-> 0, items |-> <<>>]

\* a JSON value as Python sees it after .json(); iterating a dict yields its
\* keys, which are str, so an object's items are its keys
Json(kind, items, num) == [kind |-> kind, items |-> items, num |-> num]

CitingItem(d) == [type |-> "object", has_citing |-> TRUE, citing |-> d]

OtherItem == [type |-> "object", has_citing |-> FALSE, citing |-> "None"]

StrItem == [type |-> "str", has_citing |-> FALSE, citing |-> "None"]

JsonNull == Json("null", <<>>, 0)

JsonArray(items) == Json("array", items, 0)

JsonObject(keys) == Json("object", [i \in 1..Len(keys) |-> StrItem], 0)

JsonNumber(n) == Json("number", <<>>, n)

\* what requests.get(url).json() gives: a JSON value, or an exception
\* (ConnectionError from get, JSONDecodeError from json)
Response(j) == [transport |-> "ok", json |-> j]

Unreachable == [transport |-> "ConnectionError", json |-> JsonNull]

NotJson == [transport |-> "JSONDecodeError", json |-> JsonNull]

\* the body of a gender-api.com answer: an object that may lack either key
GenderJson(g, a) == [has_gender |-> TRUE, gender |-> g, has_accuracy |-> TRUE, accuracy |-> a]

GenderErrorJson == [has_gender |-> FALSE, gender |-> "None", has_accuracy |-> FALSE, accuracy |-> 0]

\* Python truth value of a JSON value (the test "if items:")
Truthy(j) ==
  CASE j.kind = "null" -> FALSE
    [] j.kind = "number" -> j.num # 0
    [] OTHER -> Len(j.items) > 0

(***************************************************************************)
(* get_citing_dois: the loop "for item in items: append(item['citing'])".  *)
(***************************************************************************)
RECURSIVE collect_citing(_)
collect_citing(items) ==
  IF Len(items) = 0 THEN Return(<<>>)
  ELSE LET item == Head(items) IN
         IF item.type # "object" THEN Raise("TypeError")
         ELSE IF ~item.has_citing THEN Raise("KeyError")
         ELSE LET rest == collect_citing(Tail(items)) IN
                IF rest.raised THEN rest
                ELSE Return(<<item.citing>> \o rest.value)

get_citing_dois(response) ==
  IF response.transport # "ok" THEN Raise(response.transport)
  ELSE LET items == response.json IN
         IF Truthy(items) THEN
           IF items.kind = "number" THEN Raise("TypeError")
           ELSE collect_citing(items.items)
         ELSE Return(<<>>)

(***************************************************************************)
(* get_name_from_author_dict                                               *)
(***************************************************************************)
get_name_from_author_dict(author_dict) ==
  IF ~author_dict.has_given THEN Return(EmptyStr)
  ELSE LET tokens == str_split(str_replace(author_dict.given, ".", " ")) IN
         IF Len(tokens) = 0 THEN Raise("IndexError")
         ELSE Return(tokens[1])

(***************************************************************************)
(* names_from_xref, given what the metadata index answers for the DOI.     *)
(***************************************************************************)
names_from_xref(works) ==
  IF works.transport # "ok" THEN Raise("HTTPError")
  ELSE IF works.total_results > 0 THEN
    IF Len(works.items) = 0 THEN Raise("IndexError")
    ELSE LET item == works.items[1] IN
      IF item.has_author THEN
        IF Len(item.author) = 0 THEN Raise("IndexError")
        ELSE LET first_author == get_name_from_author_dict(item.author[1])
                 last_author == get_name_from_author_dict(item.author[Len(item.author)])
             IN IF first_author.raised THEN first_author
                ELSE IF last_author.raised THEN last_author
                ELSE Return(<<first_author.value, last_author.value>>)
      ELSE Return(<<EmptyStr, EmptyStr>>)
  ELSE Raise("UnboundLocalError")

(***************************************************************************)
(* name_to_gender, given what the gender service answers for the name.     *)
(* The name only goes into the request; the result is read off the answer. *)
(***************************************************************************)
name_to_gender(name, answer) ==
  IF answer.transport # "ok" THEN Raise(answer.transport)
  ELSE LET response == answer.json IN
         IF ~response.has_gender THEN Raise("KeyError")
         ELSE IF ~response.has_accuracy THEN Raise("KeyError")
         ELSE Return(<<response.gender, response.accuracy>>)

(***************************************************************************)
(* The run: the module-level code of make_dataset.py.                      *)
(***************************************************************************)
VARIABLES
  pc,             \* the statement the run is at
  k,              \* position of the for loop of line 184 in cited_dois (0: not started)
  df,             \* get_data's table, then the module's df
  n,              \* index of the current row in get_data's loop (from 0)
  fa_name, la_name,
  fa_gender, fa_accuracy,
  la_gender, la_accuracy,
  citing_papers,  \* the accumulated table
  datafile,       \* the rows written by to_csv
  cited_by,       \* history: the list get_citing_dois returned for each cited work
  built,          \* history: the rows lines 162-168 have filled for each cited work
  exc,            \* the uncaught exception that ended the run, and the call that raised it
  arg, ret        \* a single call of one function on its own: the call and its outcome

locals == <<fa_name, la_name, fa_gender, fa_accuracy, la_gender, la_accuracy>>

run_vars == <<pc, k, df, n, locals, citing_papers, datafile, cited_by, built, exc>>

vars == <<run_vars, arg, ret>>

\* lines 176-180, in the order a dict iterates: the order of insertion
cited_dois ==
  << [cited_entity |-> "paper", doi |-> "10.1038/s41593-020-0658-y"],
     [cited_entity |-> "preprint", doi |-> "10.1101/2020.01.03.894378"],
     [cited_entity |-> "code", doi |-> "10.5281/zenodo.3672109"] >>

\* a cell no statement has written yet, by the type of its column
NaNStr == <<"NaN">>

NaN == "NaN"

NaNInt == 0 - 1

NoException == [stage |-> "None", exc |-> "None"]

NoCall == [fn |-> "None"]

\* df["doi"] = [...]: one row per entry, the other columns not there yet
NewRow(doi) ==
  [doi |-> doi,
   first_author_name |-> NaNStr, first_author_gender |-> NaN,
   first_author_gender_accuracy |-> NaNInt,
   last_author_name |-> NaNStr, last_author_gender |-> NaN,
   last_author_gender_accuracy |-> NaNInt,
   cited_entity |-> NaN, cited_doi |-> NaN]

\* lines 162-168: the six df.at[n, ...] assignments
SetRow(row, fn, fg, facc, ln, lg, lacc) ==
  [row EXCEPT !.first_author_name = fn, !.first_author_gender = fg,
              !.first_author_gender_accuracy = facc,
              !.last_author_name = ln, !.last_author_gender = lg,
              !.last_author_gender_accuracy = lacc]

\* lines 187-188: the two column assignments set every row of df
Tag(table, cited_entity, doi) ==
  [i \in 1..Len(table) |-> [table[i] EXCEPT !.cited_entity = cited_entity, !.cited_doi = doi]]

\* line 189 with the two tables the other way round: df.append(citing_papers)
DataFrame_append_reversed(table, other) == other \o table

\* line 189 appending the new table a second time
DataFrame_append_twice(table, other) == table \o other \o other

\* line 189 without the append: citing_papers = df
DataFrame_append_dropped(table, other) == other

\* line 189: DataFrame.append returns the rows of both, the caller's first
DataFrame_append(table, other) == table \o other

(***************************************************************************)
(* What the services may answer during a run.                              *)
(***************************************************************************)
CitingDois == {"10.0/A", "10.0/B"}

Jane == <<"J", "a", "n", "e">>

JD == <<"J", ".", " ", "D", ".">>

JaneAnn == <<"J", "a", "n", "e", " ", "A", "n", "n">>

SeqsUpTo(S, m) == UNION {[1..i -> S] : i \in 0..m}

Received == LET RECURSIVE Sum(_)
                Sum(i) == IF i = 0 THEN 0 ELSE Len(cited_by[i]) + Sum(i - 1)
            IN Sum(Len(cited_dois))

\* the citation index: unreachable, not JSON, JSON of another shape, or an array
CitationAnswers(room) ==
  {Unreachable, NotJson, Response(JsonNull), Response(JsonObject(<<>>)),
   Response(JsonObject(<<"error">>)), Response(JsonNumber(0)), Response(JsonNumber(1))}
  \cup {Response(JsonArray(a)) :
          a \in SeqsUpTo({CitingItem(d) : d \in CitingDois} \cup {OtherItem, StrItem}, room)}

\* the metadata index: an error, no match, or one matched work
RunWorks ==
  {WorksError, Works(0, <<>>), Works(1, <<NoAuthorItem>>), Works(1, <<WorkItem(<<>>)>>),
   Works(1, <<WorkItem(<<AuthorDict(Jane)>>)>>),
   Works(1, <<WorkItem(<<AuthorDict(JD), NoGiven>>)>>),
   Works(1, <<WorkItem(<<AuthorDict(EmptyStr), AuthorDict(Jane)>>)>>)}

\* the gender service: unreachable, an error object (quota, bad key), or a guess
GenderAnswers ==
  {[transport |-> "ConnectionError", json |-> GenderErrorJson],
   [transport |-> "ok", json |-> GenderErrorJson],
   [transport |-> "ok", json |-> GenderJson("male", 95)],
   [transport |-> "ok", json |-> GenderJson("unknown", 0)]}

InitRun ==
  /\ pc = "for"
  /\ k = 0
  /\ df = <<>>
  /\ n = 0
  /\ fa_name = NaNStr /\ la_name = NaNStr
  /\ fa_gender = NaN /\ la_gender = NaN
  /\ fa_accuracy = NaNInt /\ la_accuracy = NaNInt
  /\ citing_papers = <<>>
  /\ datafile = <<>>
  /\ cited_by = [i \in 1..Len(cited_dois) |-> <<>>]
  /\ built = [i \in 1..Len(cited_dois) |-> 0]
  /\ exc = NoException

Init ==
  /\ InitRun
  /\ arg = NoCall
  /\ ret = NoCall

\* an exception nothing catches ends the run where it is
Uncaught(stage, e) ==
  /\ pc' = "aborted"
  /\ exc' = [stage |-> stage, exc |-> e]

\* line 184: the next cited work, or the end of the loop
ForCitedWork ==
  /\ pc = "for"
  /\ IF k < Len(cited_dois)
       THEN k' = k + 1 /\ pc' = "get_citing_dois"
       ELSE k' = k /\ pc' = "to_csv"
  /\ UNCHANGED <<df, n, locals, citing_papers, datafile, cited_by, built, exc, arg, ret>>

\* lines 149-156: a fresh table with the citing DOIs; the loop starts if there are any
GetCitingDois ==
  /\ pc = "get_citing_dois"
  /\ \E response \in CitationAnswers(MaxCitations - Received) :
       LET r == get_citing_dois(response) IN
         IF r.raised
           THEN /\ Uncaught("get_citing_dois", r.exc)
                /\ UNCHANGED <<df, n, cited_by>>
           ELSE /\ df' = [i \in 1..Len(r.value) |-> NewRow(r.value[i])]
                /\ cited_by' = [cited_by EXCEPT ![k] = r.value]
                /\ n' = 0
                /\ pc' = IF Len(r.value) > 0 THEN "names_from_xref" ELSE "return"
                /\ exc' = exc
  /\ UNCHANGED <<k, locals, citing_papers, datafile, built, arg, ret>>

\* line 158
NamesFromXref ==
  /\ pc = "names_from_xref"
  /\ \E works \in RunWorks :
       LET r == names_from_xref(works) IN
         IF r.raised
           THEN /\ Uncaught("names_from_xref", r.exc)
                /\ UNCHANGED <<fa_name, la_name>>
           ELSE /\ fa_name' = r.value[1]
                /\ la_name' = r.value[2]
                /\ pc' = "fa_gender"
                /\ exc' = exc
  /\ UNCHANGED <<k, df, n, fa_gender, fa_accuracy, la_gender, la_accuracy,
                 citing_papers, datafile, cited_by, built, arg, ret>>

\* line 159
FirstAuthorGender ==
  /\ pc = "fa_gender"
  /\ \E answer \in GenderAnswers :
       LET r == name_to_gender(fa_name, answer) IN
         IF r.raised
           THEN /\ Uncaught("name_to_gender", r.exc)
                /\ UNCHANGED <<fa_gender, fa_accuracy>>
           ELSE /\ fa_gender' = r.value[1]
                /\ fa_accuracy' = r.value[2]
                /\ pc' = "la_gender"
                /\ exc' = exc
  /\ UNCHANGED <<k, df, n, fa_name, la_name, la_gender, la_accuracy,
                 citing_papers, datafile, cited_by, built, arg, ret>>

\* line 160
LastAuthorGender ==
  /\ pc = "la_gender"
  /\ \E answer \in GenderAnswers :
       LET r == name_to_gender(la_name, answer) IN
         IF r.raised
           THEN /\ Uncaught("name_to_gender", r.exc)
                /\ UNCHANGED <<la_gender, la_accuracy>>
           ELSE /\ la_gender' = r.value[1]
                /\ la_accuracy' = r.value[2]
                /\ pc' = "set_row"
                /\ exc' = exc
  /\ UNCHANGED <<k, df, n, fa_name, la_name, fa_gender, fa_accuracy,
                 citing_papers, datafile, cited_by, built, arg, ret>>

\* lines 162-168, then line 156 again: the next row, or the end of the loop
FillRow ==
  /\ pc = "set_row"
  /\ df' = [df EXCEPT ![n + 1] =
              SetRow(@, fa_name, fa_gender, fa_accuracy, la_name, la_gender, la_accuracy)]
  /\ IF n + 1 < Len(df)
       THEN n' = n + 1 /\ pc' = "names_from_xref"
       ELSE n' = n /\ pc' = "return"
  /\ built' = [built EXCEPT ![k] = @ + 1]
  /\ UNCHANGED <<k, locals, citing_papers, datafile, cited_by, exc, arg, ret>>

\* lines 187-189 with the append first and the two columns set on citing_papers
TagAndAppend_tag_after_append ==
  /\ pc = "return"
  /\ df' = df
  /\ citing_papers' = Tag(DataFrame_append(citing_papers, df),
                          cited_dois[k].cited_entity, cited_dois[k].doi)
  /\ pc' = "for"
  /\ UNCHANGED <<k, n, locals, datafile, cited_by, built, exc, arg, ret>>

\* lines 172 and 186-189: get_data returns its table; the loop tags and appends it
TagAndAppend ==
  /\ pc = "return"
  /\ df' = Tag(df, cited_dois[k].cited_entity, cited_dois[k].doi)
  /\ citing_papers' = DataFrame_append(citing_papers, df')
  /\ pc' = "for"
  /\ UNCHANGED <<k, n, locals, datafile, cited_by, built, exc, arg, ret>>

\* line 194
ToCsv ==
  /\ pc = "to_csv"
  /\ datafile' = citing_papers
  /\ pc' = "saved"
  /\ UNCHANGED <<k, df, n, locals, citing_papers, cited_by, built, exc, arg, ret>>

Next ==
  \/ ForCitedWork
  \/ GetCitingDois
  \/ NamesFromXref
  \/ FirstAuthorGender
  \/ LastAuthorGender
  \/ FillRow
  \/ TagAndAppend
  \/ ToCsv

Spec == Init /\ [][Next]_vars

(***************************************************************************)
(* One call of one function on its own, on any answer of its service.      *)
(***************************************************************************)
Call(fn, input) == [fn |-> fn, input |-> input]

Examples == {Jane, JD, JaneAnn}

UnitAuthorDicts == {NoGiven} \cup {AuthorDict(g) : g \in Str(MaxLen) \cup Examples}

XrefAuthorDicts == {NoGiven} \cup {AuthorDict(g) : g \in Str(1) \cup Examples}

UnitWorks ==
  {WorksError, Works(0, <<>>), Works(1, <<NoAuthorItem>>)}
  \cup {Works(1, <<WorkItem(a)>>) : a \in SeqsUpTo(XrefAuthorDicts, MaxAuthors)}

UnitGenderAnswers ==
  GenderAnswers \cup {[transport |-> "ok", json |-> GenderJson(g, a)] :
                        g \in {"male", "female", "unknown"}, a \in {0, 50, 100}}

InitUnit ==
  /\ InitRun
  /\ ret = NoCall
  /\ \/ \E d \in UnitAuthorDicts : arg = Call("get_name_from_author_dict", d)
     \/ \E w \in UnitWorks : arg = Call("names_from_xref", w)
     \/ \E name \in {EmptyStr, Jane}, a \in UnitGenderAnswers :
          arg = Call("name_to_gender", [name |-> name, answer |-> a])
     \/ \E c \in CitationAnswers(MaxCitations) : arg = Call("get_citing_dois", c)

Called == "raised" \in DOMAIN ret

CallGetName ==
  /\ arg.fn = "get_name_from_author_dict" /\ ~Called
  /\ ret' = get_name_from_author_dict(arg.input)
  /\ UNCHANGED <<run_vars, arg>>

CallNamesFromXref ==
  /\ arg.fn = "names_from_xref" /\ ~Called
  /\ ret' = names_from_xref(arg.input)
  /\ UNCHANGED <<run_vars, arg>>

CallNameToGender ==
  /\ arg.fn = "name_to_gender" /\ ~Called
  /\ ret' = name_to_gender(arg.input.name, arg.input.answer)
  /\ UNCHANGED <<run_vars, arg>>

CallGetCitingDois ==
  /\ arg.fn = "get_citing_dois" /\ ~Called
  /\ ret' = get_citing_dois(arg.input)
  /\ UNCHANGED <<run_vars, arg>>

NextUnit ==
  \/ CallGetName
  \/ CallNamesFromXref
  \/ CallNameToGender
  \/ CallGetCitingDois

SpecUnit == InitUnit /\ [][NextUnit]_vars

(***************************************************************************)
(* Vocabulary of the properties.                                           *)
(***************************************************************************)
Works123 == 1..Len(cited_dois)

\* how many cited works have had their table appended to citing_papers
Appended == IF pc \in {"for", "to_csv", "saved"} THEN k ELSE k - 1

\* the rows of a table that carry the DOI of cited work i
RowsOf(table, i) == SelectSeq(table, LAMBDA r : r.cited_doi = cited_dois[i].doi)

DoisOf(table) == [p \in 1..Len(table) |-> table[p].doi]

Occurrences(d, list) == Len(SelectSeq(list, LAMBDA x : x = d))

RECURSIVE SumTo(_, _)
SumTo(f, i) == IF i = 0 THEN 0 ELSE f[i] + SumTo(f, i - 1)

\* citation entries the index returned for the cited works before work i
Before(i) == SumTo([j \in Works123 |-> Len(cited_by[j])], i - 1)

IsPrefix(s, t) == Len(s) <= Len(t) /\ \A p \in 1..Len(s) : t[p] = s[p]

Failed(stage) == pc = "aborted" /\ exc.stage = stage

(***************************************************************************)
(* C1. A failure of the author lookup or of a gender lookup while one      *)
(* citing DOI's row is built skips that DOI only: it never ends the run,   *)
(* which goes on to the later DOIs and cited works and to the save.        *)
(* Stated as: the run is never ended by an exception of names_from_xref    *)
(* or of name_to_gender.                                                   *)
(***************************************************************************)
C1_RowFailureNeverAbortsRun ==
  ~Failed("names_from_xref") /\ ~Failed("name_to_gender")

(***************************************************************************)
(* C2. When the metadata index reports total-results = 0, names_from_xref  *)
(* returns the pair of empty names; it does not raise.                     *)
(***************************************************************************)
C2_ZeroResultsGiveEmptyNames ==
  (arg.fn = "names_from_xref" /\ Called
     /\ arg.input.transport = "ok" /\ arg.input.total_results = 0)
  => (~ret.raised /\ ret.value = <<EmptyStr, EmptyStr>>)

(***************************************************************************)
(* C3. get_citing_dois keeps two outcomes apart: a well-formed empty array *)
(* gives the empty list without raising; an unreachable index or any       *)
(* response that is not an array of objects with a "citing" field raises,  *)
(* and is never returned as the empty list.                                *)
(***************************************************************************)
WellFormed(response) ==
  /\ response.transport = "ok"
  /\ response.json.kind = "array"
  /\ \A i \in 1..Len(response.json.items) :
       response.json.items[i].type = "object" /\ response.json.items[i].has_citing

C3_EmptyResultApartFromFailure ==
  (arg.fn = "get_citing_dois" /\ Called) =>
    /\ (WellFormed(arg.input) /\ Len(arg.input.json.items) = 0)
         => (~ret.raised /\ ret.value = <<>>)
    /\ ~WellFormed(arg.input) => ret.raised

(***************************************************************************)
(* C4. For the empty name, name_to_gender returns ("unknown", 0) whatever  *)
(* the gender service answers, so every row whose author has no given name *)
(* carries gender "unknown" and accuracy 0 for that author.                *)
(***************************************************************************)
Sentinel(name, gender, accuracy) ==
  name = EmptyStr => (gender = "unknown" /\ accuracy = 0)

C4_EmptyNameGivesSentinel ==
  /\ pc = "la_gender" => Sentinel(fa_name, fa_gender, fa_accuracy)
  /\ pc = "set_row" => Sentinel(la_name, la_gender, la_accuracy)
  /\ \A p \in 1..Len(citing_papers) :
       /\ Sentinel(citing_papers[p].first_author_name, citing_papers[p].first_author_gender,
                   citing_papers[p].first_author_gender_accuracy)
       /\ Sentinel(citing_papers[p].last_author_name, citing_papers[p].last_author_gender,
                   citing_papers[p].last_author_gender_accuracy)

(***************************************************************************)
(* C5. At every point of a run the table's order is the order of           *)
(* discovery: the rows of an earlier cited work precede those of a later   *)
(* one, within one cited work the rows are in the order the citation index *)
(* returned the citing DOIs, and a step never reorders or removes rows     *)
(* already in the table.                                                   *)
(***************************************************************************)
OrderOfDiscovery ==
  /\ \A p, q \in 1..Len(citing_papers) :
       p < q => \E i, j \in Works123 :
                  /\ i <= j
                  /\ citing_papers[p].cited_doi = cited_dois[i].doi
                  /\ citing_papers[q].cited_doi = cited_dois[j].doi
  /\ \A i \in Works123 :
       DoisOf(RowsOf(citing_papers, i)) = IF i <= Appended THEN cited_by[i] ELSE <<>>

C5_RecordOrderIsDiscoveryOrder ==
  /\ []OrderOfDiscovery
  /\ [][IsPrefix(citing_papers, citing_papers')]_vars

C5_Witness ==
  \E i, j \in Works123 :
    /\ i < j /\ j <= Appended
    /\ cited_by[i] = <<"10.0/B">> /\ cited_by[j] = <<"10.0/A">>
    /\ DoisOf(citing_papers) = <<"10.0/B", "10.0/A">>

(***************************************************************************)
(* C6, as claimed: whatever list the citation index returns, one that      *)
(* names a citing DOI twice included, the table holds at most one row per  *)
(* (citing DOI, cited_doi) pair.                                           *)
(***************************************************************************)
AtMostOnePerPair(table) ==
  \A p, q \in 1..Len(table) :
    (table[p].doi = table[q].doi /\ table[p].cited_doi = table[q].cited_doi) => p = q

C6_AtMostOneRecordPerPair == AtMostOnePerPair(citing_papers) /\ AtMostOnePerPair(datafile)

(***************************************************************************)
(* C6, amended: for each (citing DOI, cited work) pair the table holds at  *)
(* most as many rows as the list returned for that cited work names the    *)
(* citing DOI, and exactly that many once the table is saved; so at most   *)
(* one row per pair when the list names no DOI twice. The same citing DOI  *)
(* may be in rows of different cited works.                                *)
(***************************************************************************)
PairCount(table, d, i) ==
  Len(SelectSeq(table, LAMBDA r : r.doi = d /\ r.cited_doi = cited_dois[i].doi))

C6_OneRecordPerListEntry ==
  \A i \in Works123 : \A d \in CitingDois :
    /\ PairCount(citing_papers, d, i) <= Occurrences(d, cited_by[i])
    /\ pc = "saved" => PairCount(datafile, d, i) = Occurrences(d, cited_by[i])

C6_Witness ==
  /\ pc = "saved"
  /\ \E i \in Works123 : cited_by[i] = <<"10.0/A", "10.0/A">>
  /\ Len(datafile) = 2

(***************************************************************************)
(* C7. Every row of the table has the DOI of one of the fixed cited works, *)
(* its (cited_entity, cited_doi) is the (label, DOI) of the cited work     *)
(* whose citation list produced the row's citing DOI, and tagging a later  *)
(* cited work's rows never changes the tags of rows appended earlier.      *)
(***************************************************************************)
TaggedByProducer ==
  /\ Len(citing_papers) = Before(Appended + 1)
  /\ \A p \in 1..Len(citing_papers) :
       \E i \in Works123 : citing_papers[p].cited_doi = cited_dois[i].doi
  /\ \A i \in 1..Appended : \A j \in 1..Len(cited_by[i]) :
       LET r == citing_papers[Before(i) + j] IN
         /\ r.doi = cited_by[i][j]
         /\ r.cited_entity = cited_dois[i].cited_entity
         /\ r.cited_doi = cited_dois[i].doi

TagsKept ==
  \A p \in 1..Len(citing_papers) :
    /\ p <= Len(citing_papers')
    /\ citing_papers'[p].cited_entity = citing_papers[p].cited_entity
    /\ citing_papers'[p].cited_doi = citing_papers[p].cited_doi

C7_TagsAreTheProducingWork ==
  /\ []TaggedByProducer
  /\ [][TagsKept]_vars

C7_Witness ==
  /\ pc = "saved"
  /\ \E p, q \in 1..Len(citing_papers) :
       /\ p < q
       /\ citing_papers[p].doi = citing_papers[q].doi
       /\ citing_papers[p].cited_entity = "paper"
       /\ citing_papers[q].cited_entity = "code"

(***************************************************************************)
(* C8. A cited work with an empty citation list adds no row and does not   *)
(* stop the run, and at the end of the run the row count is the sum, over  *)
(* the cited works, of the rows built for each.                            *)
(***************************************************************************)
EmptyListNoRows ==
  \A i \in Works123 : cited_by[i] = <<>> => Len(RowsOf(citing_papers, i)) = 0

\* the works already appended have contributed the rows built for them
AppendedRowsAreBuilt ==
  \A i \in 1..Appended : Len(RowsOf(citing_papers, i)) = built[i]

RowCountIsSumBuilt ==
  pc = "saved" =>
    /\ Len(datafile) = SumTo(built, Len(cited_dois))
    /\ Len(citing_papers) = SumTo(built, Len(cited_dois))
    /\ \A i \in Works123 : Len(RowsOf(datafile, i)) = built[i]

EmptyListGoesOn ==
  (pc = "return" /\ Len(df) = 0) => (pc' = "for" /\ citing_papers' = citing_papers)

C8_EmptyWorkAddsNothingAndCountsAddUp ==
  /\ [](EmptyListNoRows /\ AppendedRowsAreBuilt /\ RowCountIsSumBuilt)
  /\ [][EmptyListGoesOn]_vars

C8_Witness ==
  /\ pc = "saved"
  /\ cited_by[3] = <<>> /\ built[1] > 0 /\ built[2] > 0
  /\ Len(datafile) = built[1] + built[2]

(***************************************************************************)
(* C9. For every author entry get_name_from_author_dict returns a string   *)
(* without failing: the empty string when there is no given-name field,    *)
(* else the first whitespace-delimited token of the given name with every  *)
(* period replaced by a space.                                             *)
(***************************************************************************)
Blank == Whitespace \cup {"."}

\* v is the first run of non-blank characters of s
IsFirstToken(v, s) ==
  /\ Len(v) > 0
  /\ \A i \in 1..Len(v) : v[i] \notin Blank
  /\ \E a \in 0..Len(s) :
       /\ \A i \in 1..a : s[i] \in Blank
       /\ a + Len(v) <= Len(s)
       /\ SubSeq(s, a + 1, a + Len(v)) = v
       /\ (a + Len(v) = Len(s) \/ s[a + Len(v) + 1] \in Blank)

C9_NormalizerNeverFails ==
  (arg.fn = "get_name_from_author_dict" /\ Called) =>
    /\ ~ret.raised
    /\ ~arg.input.has_given => ret.value = EmptyStr
    /\ arg.input.has_given => IsFirstToken(ret.value, arg.input.given)

(***************************************************************************)
(* C10. When the metadata index reports a match, names_from_xref returns a *)
(* pair: both names empty when the work has no author field or an empty    *)
(* author sequence, else the normalized names of the first and the last    *)
(* entry of the author sequence.                                           *)
(***************************************************************************)
C10_MatchedWorkGivesNamePair ==
  (arg.fn = "names_from_xref" /\ Called
     /\ arg.input.transport = "ok" /\ arg.input.total_results > 0) =>
    LET item == arg.input.items[1]
        author == item.author
    IN /\ ~ret.raised
       /\ (~item.has_author \/ Len(author) = 0) => ret.value = <<EmptyStr, EmptyStr>>
       /\ (item.has_author /\ Len(author) > 0) =>
            ret.value = <<get_name_from_author_dict(author[1]).value,
                          get_name_from_author_dict(author[Len(author)]).value>>

====
